---- MODULE Spec2Model ----
(***************************************************************************)
(* Reservation core of the auto-shop booking application: the Postgres     *)
(* schema (tables, constraints, row-level-security policies, the timeslot  *)
(* generation block), the create-booking serverless handler and the        *)
(* client API (createBooking, getBooking, cancelBooking).                  *)
(*                                                                         *)
(* Strings that the code only measures are represented by their length     *)
(* (customerName, notes); e-mail addresses are sequences of characters.    *)
(* Timestamps are minutes since day 0; a date is a day number.             *)
(***************************************************************************)
EXTENDS Integers, Sequences, FiniteSets, TLC

(***************************************************************************)
(* Bounds of the model                                                     *)
(***************************************************************************)
\* number of rows of the staff table (ids 1..NumStaff)
NumStaff == 2
\* number of rows of the services table (ids 1..NumServices)
NumServices == 1
\* number of concurrent callers of the client API
NumCallers == 2
\* the identity sequence of bookings is used at most this many times
MaxBookingSeq == 2
\* the generator runs at most this many times after the migration
MaxGenRuns == 1
\* CURRENT_DATE advances at most this many days
MaxDayAdvance == 2
\* first CURRENT_DATE of the model (day 0 is a Thursday, day 2 a Saturday)
FirstDay == 0
\* number of distinct values gen_random_uuid() draws from
NumUuids == 1
\* mock booking ids are drawn from 0..MaxMockId (Math.random() * 10000)
MaxMockId == 0
\* per staff member, callers pick among the first MaxPick slots
MaxPick == 1
\* number of distinct mock cancel tokens
NumMockTokens == 1
\* consecutive repetitions of one cancelBooking call that are counted
MaxRepeat == 2
\* days one run of the generation block covers (FOR i IN 0..29 in the
\* migration: the model runs the same loop over a shorter horizon)
HorizonDays == 2
\* number of sessions that run the generation block statement by statement
NumRunners == 2
\* statement-by-statement runs of the generation block that are started
MaxStepRuns == 2
\* preemptions of a running generation block by another one
MaxSwitches == 1
\* INSERT statements of the generation block that raise an error
MaxFaults == 1

(***************************************************************************)
(* Program constants                                                       *)
(***************************************************************************)
WindowStartMin == 540
WindowEndMin == 1020
SlotMin == 30
MinutesPerDay == 24 * 60
NameMinLen == 2
NameMaxLen == 100
NotesMaxLen == 500
\* constructor(message, public status = 400) of ApiError
ApiErrorDefaultStatus == 400
\* getAvailableSlots without a date: from now to now + 7 days
LookAheadMin == 7 * MinutesPerDay
\* the optional arguments staffId and date of getAvailableSlots left out
NoStaff == 0
NoDate == -1

StaffIds == 1..NumStaff
ServiceIds == 1..NumServices
Callers == 1..NumCallers

\* staff rows inserted by the migration: every one is active
ActiveStaff == StaffIds

(***************************************************************************)
(* Timeslot generation                                                     *)
(*                                                                         *)
(* The block declares a variable named current_date and assigns            *)
(* CURRENT_DATE + i days to it. Inside the block's SQL expressions the     *)
(* unquoted word current_date is the SQL keyword (the date of the          *)
(* transaction), never a reference to the variable: PL/pgSQL substitutes   *)
(* variables only for column references. So EXTRACT(DOW FROM current_date) *)
(* and current_date + INTERVAL '9 hours' are those of today in every       *)
(* iteration of FOR i. How the assignment itself is parsed depends on the  *)
(* server, see BlockAccepted.                                              *)
(***************************************************************************)
\* EXTRACT(DOW FROM d): 0 = Sunday .. 6 = Saturday; day 0 is a Thursday
Dow(d) == (d + 4) % 7

\* the n-th slot start of the WHILE loop on day d (n = 0, 1, ...)
SlotStart(d, n) == d * MinutesPerDay + WindowStartMin + n * SlotMin

\* an hour-long slot on the 30-minute grid
SlotEndHour(start) == start + 2 * SlotMin

\* end_time := slot_time + INTERVAL '30 minutes'
SlotEnd(start) == start + SlotMin

\* number of iterations of the WHILE loop on one day
SlotsPerDay == (WindowEndMin - WindowStartMin + SlotMin - 1) \div SlotMin

\* number of INSERT statements one iteration of FOR i executes when the
\* date of the transaction is cur
InsertsOnDay(cur) == IF Dow(cur) \notin {0, 6} THEN SlotsPerDay ELSE 0

RECURSIVE InsertsBefore(_, _)
\* number of INSERT statements of one staff member in iterations 0 .. i-1
InsertsBefore(cur, i) ==
  IF i = 0 THEN 0 ELSE InsertsBefore(cur, i - 1) + InsertsOnDay(cur)

\* position (0-based) of the INSERT of (staff s, iteration i, slot n) among
\* all INSERT statements of one run of the block, staff in id order
InsertIndex(cur, s, i, n) ==
  (Cardinality({a \in ActiveStaff : a < s}) * InsertsBefore(cur, HorizonDays))
    + InsertsBefore(cur, i) + n

\* number of INSERT statements of one run of the block
InsertsPerRun(cur) == Cardinality(ActiveStaff) * InsertsBefore(cur, HorizonDays)

\* <<staff, iteration, slot>> of the k-th INSERT of a run (k is below
\* InsertsPerRun(cur), so the date is not a weekend day)
InsertAt(cur, k) ==
  LET perStaff == InsertsBefore(cur, HorizonDays)
  IN  << CHOOSE s \in ActiveStaff : Cardinality({a \in ActiveStaff : a < s}) = k \div perStaff,
         (k % perStaff) \div SlotsPerDay,
         k % SlotsPerDay >>

\* the row the k-th INSERT of a run offers; id is the identity value the
\* statement draws (a value is drawn also when ON CONFLICT skips the row)
InsertRow(cur, id, k) ==
  LET t == InsertAt(cur, k)
  IN  [id |-> id,
       staff_id |-> t[1],
       start_ts |-> SlotStart(cur, t[3]),
       end_ts |-> SlotEnd(SlotStart(cur, t[3])),
       is_blocked |-> FALSE]

\* the rows one run of the block offers, in the order of a run that starts
\* with the identity sequence at seq and is alone
Candidates(cur, seq) ==
  { InsertRow(cur, seq + k, k) : k \in 0..(InsertsPerRun(cur) - 1) }

\* a plain INSERT into a table without UNIQUE(staff_id, start_ts)
InsertTimeslotPlain(slots, row) == slots \cup {row}

\* INSERT INTO timeslots ... ON CONFLICT (staff_id, start_ts) DO NOTHING
InsertTimeslot(slots, row) ==
  IF \E t \in slots : t.staff_id = row.staff_id /\ t.start_ts = row.start_ts
    THEN slots
  ELSE slots \cup {row}

\* the timeslots table after one run of the DO block, its INSERT
\* statements executed in order with nothing running in between: the
\* statements of iteration 0 store the rows the table does not hold yet,
\* those of the later iterations find the rows of iteration 0
GenerateSlots(slots, cur, seq) ==
  slots \cup
    { r \in { InsertRow(cur, seq + k, k) :
                k \in { InsertIndex(cur, s, 0, n) :
                          <<s, n>> \in { p \in ActiveStaff \X (0..(SlotsPerDay - 1)) :
                                          InsertsOnDay(cur) > 0 } } } :
        ~ \E t \in slots : t.staff_id = r.staff_id /\ t.start_ts = r.start_ts }

\* the identity sequence of timeslots after one run of the DO block
SeqAfterGenerate(cur, seq) == seq + InsertsPerRun(cur)

\* the servers the migration can be applied to: up to PostgreSQL 13
\* PL/pgSQL turns "current_date := e" into SELECT e; from PostgreSQL 14 the
\* whole assignment goes through the SQL grammar
Servers == {"pg13", "pg14"}

\* the block compiles: an assignment target must be a ColId of the SQL
\* grammar there, and current_date is a reserved word, so from
\* PostgreSQL 14 the block is rejected with a syntax error before it runs
BlockAccepted(srv) == srv = "pg13"

(***************************************************************************)
(* Values                                                                  *)
(***************************************************************************)
Null == [null |-> TRUE]
NoNotes == -1

\* cancel tokens: values of gen_random_uuid(), and the handler's mock
\* tokens "cancel-xxxxxxxxx", which are not in UUID syntax
Uuids == { <<"uuid", k>> : k \in 1..NumUuids }
MockTokens == { <<"cancel-", k>> : k \in 1..NumMockTokens }
\* a well-formed UUID that gen_random_uuid() never returns
ForeignUuid == <<"uuid", 0>>
Tokens == Uuids \cup {ForeignUuid} \cup MockTokens

\* Postgres accepts the text as a value of type UUID
IsUuidSyntax(tok) == tok[1] = "uuid"

ValidEmail == <<"a", "@", "b", ".", "c", "o">>
NotAnEmail == <<"n", "o", "t">>
NoTldEmail == <<"a", "@", "b">>

IsLetter(ch) == ch \notin {"@", ".", " "}

\* z.string().email(): local@label(.label)*.tld, no leading, trailing or
\* doubled dot in the local part, a top-level domain of two or more letters
IsEmail(e) ==
  \E k \in 1..Len(e) :
    /\ e[k] = "@"
    /\ \A j \in 1..Len(e) : e[j] = "@" => j = k
    /\ k > 1 /\ k < Len(e)
    /\ e[1] # "." /\ e[k - 1] # "."
    /\ \A j \in 1..(Len(e) - 1) : ~ (e[j] = "." /\ e[j + 1] = ".")
    /\ \A j \in 1..Len(e) : j # k => (IsLetter(e[j]) \/ e[j] = ".")
    /\ e[k + 1] # "."
    /\ \E d \in (k + 2)..(Len(e) - 2) :
         /\ e[d] = "."
         /\ \A j \in (d + 1)..Len(e) : IsLetter(e[j])

\* BookingSchema of the create-booking function
BookingSchemaOk(d) ==
  /\ d.serviceId > 0
  /\ d.staffId > 0
  /\ d.timeslotId > 0
  /\ d.customerName >= NameMinLen /\ d.customerName <= NameMaxLen
  /\ IsEmail(d.customerEmail)
  /\ (d.notes = NoNotes \/ d.notes <= NotesMaxLen)

(***************************************************************************)
(* Inputs of the callers                                                   *)
(***************************************************************************)
\* ids the migration's run gave to the first MaxPick slots of staff s
PickIdsOf(s) ==
  { 1 + ((s - 1) * InsertsBefore(FirstDay, HorizonDays)) + k : k \in 0..(MaxPick - 1) }

PickIds == UNION { PickIdsOf(s) : s \in StaffIds }

BaseRequest(s, t) ==
  [serviceId |-> 1, staffId |-> s, timeslotId |-> t,
   customerName |-> NameMinLen, customerEmail |-> ValidEmail, notes |-> NoNotes]

FirstPick == CHOOSE t \in PickIds : \A u \in PickIds : t <= u

\* well-formed requests: one for every picked slot and staff member
WellFormed == { BaseRequest(s, t) : <<s, t>> \in StaffIds \X PickIds }

\* one request per way of failing BookingSchema, and the largest name and
\* notes it accepts
Malformed ==
  { [BaseRequest(1, FirstPick) EXCEPT !.customerName = n] :
      n \in {NameMinLen - 1, NameMaxLen + 1} }
    \cup { [BaseRequest(1, FirstPick) EXCEPT !.customerEmail = e] :
             e \in {NotAnEmail, NoTldEmail} }
    \cup { [BaseRequest(1, FirstPick) EXCEPT !.notes = NotesMaxLen + 1] }
    \cup { [BaseRequest(1, FirstPick) EXCEPT !.serviceId = 0],
           [BaseRequest(1, FirstPick) EXCEPT !.staffId = 0],
           [BaseRequest(1, FirstPick) EXCEPT !.timeslotId = 0] }

\* well-formed requests that name the staff member who owns the slot
OwnStaff == { BaseRequest(s, t) : <<s, t>> \in { p \in StaffIds \X PickIds : p[2] \in PickIdsOf(p[1]) } }

Boundary ==
  { [BaseRequest(1, FirstPick) EXCEPT !.customerName = NameMaxLen,
                                      !.notes = NotesMaxLen] }

Requests == WellFormed \cup Malformed \cup Boundary

BookingIdInputs == 1..MaxBookingSeq
MockIds == 0..MaxMockId

(***************************************************************************)
(* The database: tables, constraints, row-level security                   *)
(***************************************************************************)
\* the policies with one more: FOR UPDATE TO anon USING (true)
RlsAllowsAnonUpdate(role, command) ==
  \/ role = "service_role"
  \/ role = "anon" /\ command \in {"INSERT", "SELECT", "UPDATE"}

\* RLS is enabled on bookings; policies exist for INSERT and SELECT of the
\* role anon, none for UPDATE or DELETE. With no applicable policy a
\* command sees no row (default deny).
RlsAllows(role, command) ==
  \/ role = "service_role"
  \/ role = "anon" /\ command \in {"INSERT", "SELECT"}

\* the schema without the unique constraint on bookings(timeslot_id)
UniqueViolationDropped(rows, timeslotId) == FALSE

\* UNIQUE(timeslot_id) on bookings: every row counts, whatever its status
UniqueViolation(rows, timeslotId) ==
  \E b \in rows : b.timeslot_id = timeslotId

\* REFERENCES services(id), staff(id), timeslots(id)
ForeignKeyViolation(slots, d) ==
  \/ d.serviceId \notin ServiceIds
  \/ d.staffId \notin StaffIds
  \/ ~ \E t \in slots : t.id = d.timeslotId

\* SQLSTATE of INSERT INTO bookings ... RETURNING id, cancel_token
\* ("00000" is success); the unique index is checked when the row is
\* inserted, the foreign keys at the end of the statement
InsertError(rows, slots, d, role) ==
  IF ~ RlsAllows(role, "INSERT") THEN "42501"
  ELSE IF UniqueViolation(rows, d.timeslotId) THEN "23505"
  ELSE IF ForeignKeyViolation(slots, d) THEN "23503"
  ELSE "00000"

\* the row an insert that leaves out status would store: the column default
NewBookingDefaultStatus(id, d, tok) ==
  [id |-> id,
   service_id |-> d.serviceId,
   staff_id |-> d.staffId,
   timeslot_id |-> d.timeslotId,
   customer_name |-> d.customerName,
   customer_email |-> d.customerEmail,
   notes |-> d.notes,
   status |-> "pending",
   cancel_token |-> tok]

\* the row the direct insert of createBooking stores
NewBooking(id, d, tok) ==
  [id |-> id,
   service_id |-> d.serviceId,
   staff_id |-> d.staffId,
   timeslot_id |-> d.timeslotId,
   customer_name |-> d.customerName,
   customer_email |-> d.customerEmail,
   notes |-> d.notes,
   status |-> "confirmed",
   cancel_token |-> tok]

\* rows of SELECT * FROM bookings WHERE id = .. AND cancel_token = ..
MatchingRows(rows, id, tok) ==
  { b \in rows : b.id = id /\ b.cancel_token = tok }

\* getBooking without the filter on cancel_token
GetBookingByIdOnly(rows, id, tok, role) ==
  IF ~ IsUuidSyntax(tok) THEN Null
  ELSE IF ~ \E b \in rows : b.id = id THEN Null
  ELSE CHOOSE b \in rows : b.id = id

\* getBooking: null on any error (malformed token, no row for .single())
GetBooking(rows, id, tok, role) ==
  IF ~ IsUuidSyntax(tok) THEN Null
  ELSE IF ~ RlsAllows(role, "SELECT") THEN Null
  ELSE IF MatchingRows(rows, id, tok) = {} THEN Null
  ELSE CHOOSE b \in MatchingRows(rows, id, tok) : TRUE

\* cancelBooking that rejects the cancellation of a cancelled booking
CancelErrorWhenCancelled(rows, id, tok) ==
  \/ ~ IsUuidSyntax(tok)
  \/ \E b \in rows : b.id = id /\ b.cancel_token = tok /\ b.status = "cancelled"

\* the error of cancelBooking's UPDATE: only a token that is not a UUID
\* makes the statement fail; an UPDATE of no row is no error
CancelError(rows, id, tok) == ~ IsUuidSyntax(tok)

\* an UPDATE that cancels the booking and gives it a new cancel_token
UpdateCancelledReissuing(rows, id, tok, role) ==
  { IF b \in MatchingRows(rows, id, tok)
      THEN [b EXCEPT !.status = "cancelled", !.cancel_token = ForeignUuid] ELSE b : b \in rows }

\* UPDATE bookings SET status = 'cancelled' WHERE id = .. AND cancel_token = ..
UpdateCancelled(rows, id, tok, role) ==
  IF CancelError(rows, id, tok) \/ ~ RlsAllows(role, "UPDATE") THEN rows
  ELSE { IF b \in MatchingRows(rows, id, tok)
           THEN [b EXCEPT !.status = "cancelled"] ELSE b : b \in rows }

\* rows of SELECT * FROM bookings as seen by a role: the SELECT policy of
\* anon is USING (true), every column of every row
SelectBookings(rows, role) == IF RlsAllows(role, "SELECT") THEN rows ELSE {}

\* a timeslot is free: it exists, is not blocked and no booking other than
\* cancelled ones references it
SlotFree(rows, slots, t) ==
  /\ \E ts \in slots : ts.id = t /\ ~ ts.is_blocked
  /\ ~ \E b \in rows : b.timeslot_id = t /\ b.status # "cancelled"

(***************************************************************************)
(* State                                                                   *)
(***************************************************************************)
VARIABLES
  timeslots,    \* table timeslots
  timeslotSeq,  \* next value of the identity sequence of timeslots
  today,        \* CURRENT_DATE
  genRuns,      \* runs of the generation block after the migration
  bookings,     \* table bookings
  bookingSeq,   \* next value of the identity sequence of bookings
  pc,           \* per caller: position inside createBooking
  call,         \* per caller: the createBooking call in progress
  lastCall,     \* the last getBooking / cancelBooking call and its result
  server,       \* the PostgreSQL server the migration was applied to
  gen,          \* the runs of the generation block that go statement by statement
  http,         \* the last request sent to the create-booking function directly
  ui            \* the state of the pages of the browser application

vars == <<timeslots, timeslotSeq, today, genRuns, bookings, bookingSeq,
          pc, call, lastCall, server, gen, http, ui>>

dbVars == <<timeslots, timeslotSeq, today, genRuns, bookings, bookingSeq>>

NoCall == [op |-> "none"]

\* no createBooking call in progress
Idle == [req |-> Null, slotFree |-> FALSE, fn |-> "none",
         ok |-> FALSE, bookingId |-> 0, cancelToken |-> Null, error |-> "none",
         sqlstate |-> "none", errorStatus |-> 0]

Runners == 1..NumRunners

\* a session that has not run the block
IdleRun == [st |-> "idle", cur |-> 0, k |-> 0, ins |-> {}, found |-> FALSE]

NoRuns == [run |-> [r \in Runners |-> IdleRun], last |-> 0, switches |-> 0, faults |-> 0]

NoRequest == [method |-> "none"]

\* an optional value of the pages' state: undefined / null, or a value
Unset == <<>>
Some(v) == <<v>>

\* BookingPage's bookingState before anything is chosen
NoBookingState == [service |-> Unset, staff |-> Unset, timeSlot |-> Unset, date |-> Unset,
                   bookingId |-> Unset, cancelToken |-> Unset]

NoOutcome == [caller |-> 0, onSuccess |-> 0, setSubmitError |-> FALSE]

\* the application as loaded at '/': App shows HomePage, no other page is
\* mounted, localStorage holds no admin key
HomeUi ==
  [page |-> "home", initialService |-> Unset,
   currentStep |-> "none", bookingState |-> NoBookingState,
   inFlight |-> {}, formCall |-> 0, isSubmitting |-> FALSE, submitError |-> FALSE,
   outcome |-> NoOutcome,
   isAuthenticated |-> FALSE, adminKey |-> "", keyError |-> FALSE, checked |-> {},
   storedKey |-> Unset]

\* the database after the migration; a server that rejects the generation
\* block has the tables and no timeslot
Init ==
  /\ server \in Servers
  /\ today = FirstDay
  /\ timeslots = (IF BlockAccepted(server) THEN GenerateSlots({}, FirstDay, 1) ELSE {})
  /\ timeslotSeq = (IF BlockAccepted(server) THEN SeqAfterGenerate(FirstDay, 1) ELSE 1)
  /\ gen = NoRuns
  /\ http = NoRequest
  /\ ui = HomeUi
  /\ genRuns = 0
  /\ bookings = {}
  /\ bookingSeq = 1
  /\ pc = [c \in Callers |-> "idle"]
  /\ call = [c \in Callers |-> Idle]
  /\ lastCall = NoCall

(***************************************************************************)
(* Maintenance                                                             *)
(***************************************************************************)
\* the generation block runs again (periodic maintenance job)
\* taken as one step: a run with no other run in progress
Generate ==
  /\ genRuns < MaxGenRuns
  /\ \A r \in Runners : gen.run[r].st # "running"
  /\ IF BlockAccepted(server)
       THEN /\ timeslots' = GenerateSlots(timeslots, today, timeslotSeq)
            /\ timeslotSeq' = SeqAfterGenerate(today, timeslotSeq)
       ELSE UNCHANGED <<timeslots, timeslotSeq>>
  /\ genRuns' = genRuns + 1
  /\ UNCHANGED <<server, gen, http, today, bookings, bookingSeq, pc, call, lastCall, ui>>

\* midnight passes
AdvanceDay ==
  /\ today < FirstDay + MaxDayAdvance
  /\ today' = today + 1
  /\ UNCHANGED <<server, gen, http, timeslots, timeslotSeq, genRuns, bookings, bookingSeq,
                 pc, call, lastCall, ui>>

(***************************************************************************)
(* The generation block, statement by statement (concurrent sessions)      *)
(***************************************************************************)
\* the table holds every (staff_id, start_ts) a run on date cur offers
Materialized(slots, cur) ==
  /\ InsertsOnDay(cur) > 0
  /\ \A s \in ActiveStaff : \A n \in 0..(SlotsPerDay - 1) :
       \E t \in slots : t.staff_id = s /\ t.start_ts = SlotStart(cur, n)

\* the rows of transactions that have ended
CommittedSlots ==
  { t \in timeslots : \A o \in Runners : gen.run[o].st = "running" => t.id \notin gen.run[o].ins }

\* the next INSERT of session r finds its (staff_id, start_ts) in a row of
\* a transaction that has not ended: ON CONFLICT waits for that transaction
Waits(r) ==
  /\ gen.run[r].st = "running"
  /\ gen.run[r].k < InsertsPerRun(gen.run[r].cur)
  /\ \E o \in Runners \ {r} :
       /\ gen.run[o].st = "running"
       /\ \E t \in timeslots :
            /\ t.id \in gen.run[o].ins
            /\ t.staff_id = InsertRow(gen.run[r].cur, 0, gen.run[r].k).staff_id
            /\ t.start_ts = InsertRow(gen.run[r].cur, 0, gen.run[r].k).start_ts

\* a step of session r takes the processor from a session that could go on
Preempts(r) ==
  /\ gen.last \notin {0, r}
  /\ gen.run[gen.last].st = "running"
  /\ ~ Waits(gen.last)

Scheduled(r) == Preempts(r) => gen.switches < MaxSwitches

\* gen after a step of session r that leaves the session as rec
GenAfter(r, rec, faults) ==
  [run |-> [gen.run EXCEPT ![r] = rec],
   last |-> r,
   switches |-> (IF Preempts(r) THEN gen.switches + 1 ELSE gen.switches),
   faults |-> gen.faults + faults]

\* a session sends the block to a server that compiles it: BEGIN
GenerateBegin(r) ==
  /\ BlockAccepted(server)
  /\ genRuns < MaxStepRuns
  /\ gen.run[r].st # "running"
  /\ Scheduled(r)
  /\ genRuns' = genRuns + 1
  /\ gen' = GenAfter(r, [st |-> "running", cur |-> today, k |-> 0, ins |-> {},
                         found |-> Materialized(CommittedSlots, today)], 0)
  /\ UNCHANGED <<timeslots, timeslotSeq, today, bookings, bookingSeq,
                 pc, call, lastCall, server, http, ui>>

\* a session sends the block to a server that rejects it: syntax error
GenerateRejected(r) ==
  /\ ~ BlockAccepted(server)
  /\ genRuns < MaxStepRuns
  /\ genRuns' = genRuns + 1
  /\ gen' = GenAfter(r, [IdleRun EXCEPT !.st = "rejected", !.cur = today], 0)
  /\ UNCHANGED <<timeslots, timeslotSeq, today, bookings, bookingSeq,
                 pc, call, lastCall, server, http, ui>>

\* the next INSERT ... ON CONFLICT DO NOTHING of session r
GenerateInsert(r) ==
  /\ gen.run[r].st = "running"
  /\ gen.run[r].k < InsertsPerRun(gen.run[r].cur)
  /\ ~ Waits(r)
  /\ Scheduled(r)
  /\ LET row == InsertRow(gen.run[r].cur, timeslotSeq, gen.run[r].k)
         after == InsertTimeslot(timeslots, row)
     IN  /\ timeslots' = after
         /\ gen' = GenAfter(r, [gen.run[r] EXCEPT
                                  !.k = @ + 1,
                                  !.ins = IF after = timeslots THEN @ ELSE @ \cup {row.id}], 0)
  /\ timeslotSeq' = timeslotSeq + 1
  /\ UNCHANGED <<today, genRuns, bookings, bookingSeq, pc, call, lastCall, server, http, ui>>

\* the next INSERT of session r raises an error (the staff row was deleted
\* in the meantime, the statement was cancelled, ...): the block has no
\* EXCEPTION clause, the error ends it and its transaction is rolled back
GenerateInsertFails(r) ==
  /\ gen.run[r].st = "running"
  /\ gen.run[r].k < InsertsPerRun(gen.run[r].cur)
  /\ gen.faults < MaxFaults
  /\ Scheduled(r)
  /\ timeslots' = { t \in timeslots : t.id \notin gen.run[r].ins }
  /\ timeslotSeq' = timeslotSeq + 1
  /\ gen' = GenAfter(r, [gen.run[r] EXCEPT !.st = "aborted", !.ins = {}], 1)
  /\ UNCHANGED <<today, genRuns, bookings, bookingSeq, pc, call, lastCall, server, http, ui>>

\* END of the block: the transaction of session r commits
GenerateCommit(r) ==
  /\ gen.run[r].st = "running"
  /\ gen.run[r].k = InsertsPerRun(gen.run[r].cur)
  /\ Scheduled(r)
  /\ gen' = GenAfter(r, [gen.run[r] EXCEPT !.st = "committed"], 0)
  /\ UNCHANGED <<timeslots, timeslotSeq, today, genRuns, bookings, bookingSeq,
                 pc, call, lastCall, server, http, ui>>

(***************************************************************************)
(* createBooking                                                           *)
(***************************************************************************)
\* a caller calls createBooking(d): the request is posted to the function
CreateBookingBegin(c, d) ==
  /\ pc[c] = "idle"
  /\ pc' = [pc EXCEPT ![c] = "fetch"]
  /\ call' = [call EXCEPT ![c] =
       [Idle EXCEPT !.req = d,
                    !.slotFree = SlotFree(bookings, timeslots, d.timeslotId),
                    !.fn = "pending"]]
  /\ UNCHANGED <<server, gen, http, dbVars, lastCall>>

\* createBooking called by a caller other than the pages
CreateBookingCall(c, d) == CreateBookingBegin(c, d) /\ UNCHANGED ui

\* fetch rejects or answers without reaching the handler (the function is
\* not deployed, as on the development server): createBooking falls back
FunctionUnavailable(c) ==
  /\ pc[c] = "fetch"
  /\ pc' = [pc EXCEPT ![c] = "insert"]
  /\ call' = [call EXCEPT ![c].fn = "unavailable"]
  /\ UNCHANGED <<server, gen, http, dbVars, lastCall, ui>>

\* the create-booking handler answers the POST with 400: the response is
\* not ok, createBooking throws and falls back to the direct insert
Handler400(c) ==
  /\ pc[c] = "fetch"
  /\ ~ BookingSchemaOk(call[c].req)
  /\ pc' = [pc EXCEPT ![c] = "insert"]
  /\ call' = [call EXCEPT ![c].fn = "400"]
  /\ UNCHANGED <<server, gen, http, dbVars, lastCall, ui>>

\* the create-booking handler answers the POST with 200 and its mock
\* booking id and token; createBooking returns them
Handler200(c, mockBookingId, mockCancelToken) ==
  /\ pc[c] = "fetch"
  /\ BookingSchemaOk(call[c].req)
  /\ pc' = [pc EXCEPT ![c] = "done"]
  /\ call' = [call EXCEPT ![c].fn = "200",
                          ![c].ok = TRUE,
                          ![c].bookingId = mockBookingId,
                          ![c].cancelToken = mockCancelToken]
  /\ UNCHANGED <<server, gen, http, dbVars, lastCall, ui>>

\* what createBooking makes of the SQLSTATE of its insert: the message of
\* the ApiError it throws
ErrorOf(sqlstate) == IF sqlstate = "23505" THEN "slotTaken" ELSE "other"

\* the status of the ApiError createBooking throws: both throw statements
\* call new ApiError(message), which leaves status at its default
ApiErrorStatus(sqlstate) == ApiErrorDefaultStatus

\* the fallback of createBooking: one INSERT ... RETURNING round trip
DirectInsert(c, tok) ==
  /\ pc[c] = "insert"
  /\ bookingSeq <= MaxBookingSeq
  /\ bookingSeq' = bookingSeq + 1
  /\ LET d == call[c].req
         err == InsertError(bookings, timeslots, d, "anon")
     IN  IF err = "00000"
         THEN /\ bookings' = bookings \cup {NewBooking(bookingSeq, d, tok)}
              /\ call' = [call EXCEPT ![c].ok = TRUE,
                                      ![c].bookingId = bookingSeq,
                                      ![c].cancelToken = tok]
         ELSE /\ bookings' = bookings
              /\ call' = [call EXCEPT ![c].error = ErrorOf(err),
                                      ![c].sqlstate = err,
                                      ![c].errorStatus = ApiErrorStatus(err)]
  /\ pc' = [pc EXCEPT ![c] = "done"]
  /\ UNCHANGED <<server, gen, http, timeslots, timeslotSeq, today, genRuns, lastCall, ui>>

\* the round trip of the fallback insert fails (the request does not reach
\* storage, or the row was stored and the response is lost): the client
\* resolves with an error that has no code, createBooking throws
DirectInsertUnreachable(c, tok, applied) ==
  /\ pc[c] = "insert"
  /\ bookingSeq <= MaxBookingSeq
  /\ LET d == call[c].req
         stored == applied /\ InsertError(bookings, timeslots, d, "anon") = "00000"
     IN  /\ bookingSeq' = (IF applied THEN bookingSeq + 1 ELSE bookingSeq)
         /\ bookings' = (IF stored THEN bookings \cup {NewBooking(bookingSeq, d, tok)}
                         ELSE bookings)
  /\ call' = [call EXCEPT ![c].error = ErrorOf("none"),
                          ![c].errorStatus = ApiErrorStatus("none")]
  /\ pc' = [pc EXCEPT ![c] = "done"]
  /\ UNCHANGED <<server, gen, http, timeslots, timeslotSeq, today, genRuns, lastCall, ui>>

\* the caller has consumed the outcome of createBooking
CreateBookingEnd(c) ==
  /\ pc[c] = "done"
  /\ pc' = [pc EXCEPT ![c] = "idle"]
  /\ call' = [call EXCEPT ![c] = Idle]
  /\ UNCHANGED <<server, gen, http, dbVars, lastCall>>

\* a caller other than the pages has consumed the outcome
Return(c) == CreateBookingEnd(c) /\ UNCHANGED ui

(***************************************************************************)
(* The create-booking function called over HTTP                            *)
(***************************************************************************)
\* request bodies: none (event.body is null or empty), text that is not
\* JSON, and JSON texts
AbsentBody == [kind |-> "absent"]
UnparseableBody == [kind |-> "unparseable"]
JsonBody(v) == [kind |-> "json", value |-> v]

\* JSON values that are not booking requests: {} and null
EmptyObject == [object |-> "empty"]
JsonNull == [json |-> "null"]

HttpBodies ==
  {AbsentBody, UnparseableBody}
    \cup { JsonBody(v) : v \in Requests \cup {EmptyObject, JsonNull} }

HttpMethods == {"OPTIONS", "POST", "GET", "PUT", "DELETE"}

\* JSON.parse throws a SyntaxError
ParseThrows(body) == body.kind = "unparseable"

\* JSON.parse(event.body || "{}")
JsonParse(body) == IF body.kind = "absent" THEN EmptyObject ELSE body.value

\* BookingSchema.parse(v) returns
SchemaAccepts(v) == v \notin {EmptyObject, JsonNull} /\ BookingSchemaOk(v)

\* the paths of the issues of the ZodError that BookingSchema.parse(v) throws
ZodIssues(v) ==
  IF v = JsonNull THEN {"(root)"}
  ELSE IF v = EmptyObject
    THEN {"serviceId", "staffId", "timeslotId", "customerName", "customerEmail"}
  ELSE { f \in {"serviceId", "staffId", "timeslotId", "customerName", "customerEmail", "notes"} :
           \/ f = "serviceId" /\ ~ (v.serviceId > 0)
           \/ f = "staffId" /\ ~ (v.staffId > 0)
           \/ f = "timeslotId" /\ ~ (v.timeslotId > 0)
           \/ f = "customerName" /\ ~ (v.customerName >= NameMinLen /\ v.customerName <= NameMaxLen)
           \/ f = "customerEmail" /\ ~ IsEmail(v.customerEmail)
           \/ f = "notes" /\ ~ (v.notes = NoNotes \/ v.notes <= NotesMaxLen) }

\* what happens to the two notification e-mails: RESEND_API_KEY is set or
\* not, and each send resolves or rejects
MailOutcomes ==
  { [key |-> FALSE, customer |-> "skipped", admin |-> "skipped"] }
    \cup { [key |-> TRUE, customer |-> cu, admin |-> ad] :
             cu \in {"sent", "fails"}, ad \in {"sent", "fails"} }

\* Promise.all of the two sends rejects
EmailsThrow(mail) == mail.customer = "fails" \/ mail.admin = "fails"

\* a handler whose e-mail failure reaches the outer catch
HandlerStatusMailFatal(method, body, mail) ==
  IF method = "OPTIONS" THEN 200
  ELSE IF method # "POST" THEN 405
  ELSE IF ParseThrows(body) THEN 500
  ELSE IF ~ SchemaAccepts(JsonParse(body)) THEN 400
  ELSE IF EmailsThrow(mail) THEN 500
  ELSE 200

\* statusCode of the handler's answer; an error of the e-mails is caught
\* by the inner try/catch and only logged
HandlerStatus(method, body, mail) ==
  IF method = "OPTIONS" THEN 200
  ELSE IF method # "POST" THEN 405
  ELSE IF ParseThrows(body) THEN 500
  ELSE IF ~ SchemaAccepts(JsonParse(body)) THEN 400
  ELSE 200

\* the body of the handler's answer
HandlerBody(method, body, status, mockBookingId, mockCancelToken) ==
  IF method = "OPTIONS" THEN [empty |-> TRUE]
  ELSE IF status = 405 THEN [error |-> "Method not allowed"]
  ELSE IF status = 500 THEN [error |-> "Internal server error"]
  ELSE IF status = 400
    THEN [error |-> "Invalid data", details |-> ZodIssues(JsonParse(body))]
  ELSE [bookingId |-> mockBookingId, cancelToken |-> mockCancelToken,
        message |-> "Booking created successfully"]

\* the cancel link of the customer's confirmation e-mail, if one was sent
CancelLink(status, mail, mockBookingId, mockCancelToken) ==
  IF status = 200 /\ mail.customer = "sent"
    THEN <<mockBookingId, mockCancelToken>>
  ELSE Null

\* a client sends a request to the function
HttpRequest(method, body, mail, mockBookingId, mockCancelToken) ==
  /\ LET status == HandlerStatus(method, body, mail)
     IN  http' = [method |-> method, body |-> body, mail |-> mail,
                  mockBookingId |-> mockBookingId,
                  mockCancelToken |-> mockCancelToken,
                  status |-> status,
                  answer |-> HandlerBody(method, body, status, mockBookingId, mockCancelToken),
                  cancelLink |-> CancelLink(status, mail, mockBookingId, mockCancelToken)]
  /\ UNCHANGED <<dbVars, pc, call, lastCall, server, gen, ui>>

(***************************************************************************)
(* getBooking and cancelBooking                                            *)
(***************************************************************************)
\* position of a call (op, id, tok) in a run of calls of the same
\* operation with the same arguments each of which follows a successful
\* one, counted up to MaxRepeat
Repeat(lc, op, id, tok) ==
  IF lc # NoCall /\ lc.op = op /\ lc.id = id /\ lc.tok = tok /\ lc.result = TRUE
    THEN (IF lc.n < MaxRepeat THEN lc.n + 1 ELSE MaxRepeat)
  ELSE 1

\* status of the booking the pair (id, tok) names, "none" if there is none
StatusOf(rows, id, tok) ==
  IF MatchingRows(rows, id, tok) = {} THEN "none"
  ELSE (CHOOSE b \in MatchingRows(rows, id, tok) : TRUE).status

GetBookingCall(id, tok) ==
  /\ lastCall' = [op |-> "getBooking", id |-> id, tok |-> tok,
                  before |-> StatusOf(bookings, id, tok),
                  result |-> GetBooking(bookings, id, tok, "anon"),
                  n |-> 1]
  /\ UNCHANGED <<server, gen, http, dbVars, pc, call, ui>>

CancelBookingCall(id, tok) ==
  /\ bookings' = UpdateCancelled(bookings, id, tok, "anon")
  /\ lastCall' = [op |-> "cancelBooking", id |-> id, tok |-> tok,
                  before |-> StatusOf(bookings, id, tok),
                  result |-> ~ CancelError(bookings, id, tok),
                  acked |-> TRUE,
                  n |-> Repeat(lastCall, "cancelBooking", id, tok)]
  /\ UNCHANGED <<server, gen, http, timeslots, timeslotSeq, today, genRuns, bookingSeq, pc, call, ui>>

\* the round trip of cancelBooking's UPDATE fails (the request does not
\* reach storage, or the statement ran and the response is lost): the
\* client resolves with an error and cancelBooking returns !error
CancelBookingUnreachable(id, tok, applied) ==
  /\ bookings' = (IF applied THEN UpdateCancelled(bookings, id, tok, "anon") ELSE bookings)
  /\ lastCall' = [op |-> "cancelBooking", id |-> id, tok |-> tok,
                  before |-> StatusOf(bookings, id, tok),
                  result |-> FALSE,
                  acked |-> FALSE,
                  n |-> Repeat(lastCall, "cancelBooking", id, tok)]
  /\ UNCHANGED <<server, gen, http, timeslots, timeslotSeq, today, genRuns, bookingSeq, pc, call, ui>>

\* loadBookings of the admin page: select('*, services(..), staff(..)')
\* from bookings through the public client
LoadBookingsCall ==
  /\ lastCall' = [op |-> "loadBookings", id |-> 0, tok |-> Null,
                  before |-> "none",
                  result |-> SelectBookings(bookings, "anon"),
                  n |-> 1]
  /\ UNCHANGED <<dbVars, pc, call, server, gen, http, ui>>

(***************************************************************************)
(* getAvailableSlots                                                       *)
(***************************************************************************)
\* what PostgREST returns for the embedded bookings!left(id, status) of a
\* timeslot: an array of the bookings, or, where it takes the foreign key
\* under UNIQUE(timeslot_id) for a one-to-one relationship (PostgREST 10
\* and later), the one booking as an object and null if there is none
EmbedShapes == {"array", "object"}

\* the bookings embedded in timeslot t
EmbeddedBookings(rows, t) ==
  { [id |-> b.id, status |-> b.status] : b \in { x \in rows : x.timeslot_id = t } }

\* the callback of (data || []).filter for a slot with the embedded
\* bookings emb: of an object, .length is undefined and .every is not a
\* function
FilterOutcome(emb, shape) ==
  IF shape = "array"
    THEN (IF emb = {} \/ \A e \in emb : e.status = "cancelled" THEN "keep" ELSE "drop")
  ELSE IF emb = {} THEN "keep"
  ELSE "TypeError"

\* the filters on start_ts: the given day, or now .. now + 7 days
InWindow(start, date, now) ==
  IF date # NoDate THEN start \div MinutesPerDay = date
  ELSE start >= now /\ start <= now + LookAheadMin

\* .order("start_ts") on pairs <<start_ts, id>>; rows with equal start_ts
\* come in the order of ids
StartsBefore(p, q) == p[1] < q[1] \/ (p[1] = q[1] /\ p[2] < q[2])

RECURSIVE SeqOfSet(_)
\* the elements of a set as a sequence, in some order
SeqOfSet(S) ==
  IF S = {} THEN <<>>
  ELSE LET x == CHOOSE y \in S : TRUE
       IN  <<x>> \o SeqOfSet(S \ {x})

\* the ids of the rows of S in the order of start_ts
OrderByStart(S) ==
  LET sorted == SortSeq(SeqOfSet({ <<t.start_ts, t.id>> : t \in S }), StartsBefore)
  IN  [i \in 1..Len(sorted) |-> sorted[i][2]]

\* getAvailableSlots(serviceId, staffId, date) called at the time now;
\* if (staffId) and if (date) skip the filter of an argument left out, and
\* serviceId is not used
GetAvailableSlots(rows, slots, serviceId, staffId, date, now, shape, role) ==
  LET selected == { t \in slots :
                      /\ (role = "anon" => ~ t.is_blocked)
                      /\ ~ t.is_blocked
                      /\ (staffId = NoStaff \/ t.staff_id = staffId)
                      /\ InWindow(t.start_ts, date, now) }
  IN  IF \E t \in selected : FilterOutcome(EmbeddedBookings(rows, t.id), shape) = "TypeError"
        THEN [threw |-> TRUE, rows |-> <<>>]
      ELSE [threw |-> FALSE,
            rows |-> OrderByStart({ t \in selected :
                        FilterOutcome(EmbeddedBookings(rows, t.id), shape) = "keep" })]

\* the customer's page loads the available slots at clock minutes past
\* midnight of today
GetAvailableSlotsCall(serviceId, staffId, date, clock, shape) ==
  /\ lastCall' = [op |-> "getAvailableSlots", id |-> 0, tok |-> Null,
                  before |-> "none",
                  args |-> [serviceId |-> serviceId, staffId |-> staffId,
                            date |-> date, now |-> today * MinutesPerDay + clock,
                            shape |-> shape],
                  result |-> GetAvailableSlots(bookings, timeslots, serviceId, staffId, date,
                                               today * MinutesPerDay + clock, shape, "anon"),
                  n |-> 1]
  /\ UNCHANGED <<dbVars, pc, call, server, gen, http, ui>>

(***************************************************************************)
(* Administration (service role, outside the customer application)         *)
(***************************************************************************)
\* the status changes the administration makes to a booking
AdminEdges == { <<"pending", "confirmed">>, <<"pending", "cancelled">>,
                <<"confirmed", "cancelled">>, <<"confirmed", "completed">> }

AdminSetStatus(id, st) ==
  /\ \E b \in bookings :
       /\ b.id = id
       /\ <<b.status, st>> \in AdminEdges
       /\ bookings' = (bookings \ {b}) \cup {[b EXCEPT !.status = st]}
  /\ UNCHANGED <<server, gen, http, timeslots, timeslotSeq, today, genRuns, bookingSeq,
                 pc, call, lastCall, ui>>

\* the administration blocks or unblocks a timeslot
AdminSetBlocked(t, flag) ==
  /\ \E ts \in timeslots :
       /\ ts.id = t
       /\ ts.is_blocked # flag
       /\ timeslots' = (timeslots \ {ts}) \cup {[ts EXCEPT !.is_blocked = flag]}
  /\ UNCHANGED <<timeslotSeq, today, genRuns, bookings, bookingSeq,
                 pc, call, lastCall, server, gen, http, ui>>

(***************************************************************************)
(* Specification                                                           *)
(***************************************************************************)
MaintenanceNext ==
  \/ Generate
  \/ AdvanceDay

AdminNext ==
  \E id \in BookingIdInputs, st \in {"confirmed", "cancelled", "completed"} :
    AdminSetStatus(id, st)

\* createBooking of caller c with a request of the set reqs that passes
\* BookingSchema
CreateBookingNext(c, reqs) ==
  \/ \E d \in reqs : CreateBookingCall(c, d)
  \/ FunctionUnavailable(c)
  \/ \E id \in MockIds, tok \in MockTokens : Handler200(c, id, tok)
  \/ \E tok \in Uuids : DirectInsert(c, tok)
  \/ Return(c)

\* the (id, token) pairs of the cancel links of the stored bookings
LinkCredentials == { <<b.id, b.cancel_token>> : b \in bookings }

\* concurrent callers claim slots with well-formed requests, customers
\* follow their cancel links, the administration and the generator run
Next ==
  \/ MaintenanceNext
  \/ \E c \in Callers : CreateBookingNext(c, OwnStaff)
  \/ \E cr \in LinkCredentials : CancelBookingCall(cr[1], cr[2])
  \/ AdminNext

Spec == Init /\ [][Next]_vars

\* one caller; getBooking and cancelBooking are called with any id and token
LinkNext ==
  \/ CreateBookingNext(1, OwnStaff)
  \/ \E id \in BookingIdInputs, tok \in Tokens : GetBookingCall(id, tok)
  \/ \E id \in BookingIdInputs, tok \in Tokens : CancelBookingCall(id, tok)
  \/ LoadBookingsCall
  \/ AdminNext

LinkSpec == Init /\ [][LinkNext]_vars

\* one caller sends every kind of request
ValidationNext ==
  \/ CreateBookingNext(1, Requests)
  \/ Handler400(1)

ValidationSpec == Init /\ [][ValidationNext]_vars

\* a session runs the generation block statement by statement
GenerateNext(r) ==
  \/ GenerateBegin(r)
  \/ GenerateRejected(r)
  \/ GenerateInsert(r)
  \/ GenerateCommit(r)

\* concurrent sessions run the generation block while the days pass
GeneratorNext ==
  \/ AdvanceDay
  \/ \E r \in Runners : GenerateNext(r)

GeneratorSpec == Init /\ [][GeneratorNext]_vars

\* one session runs the generation block again and again, and a statement
\* of it can fail
FailureNext ==
  \/ AdvanceDay
  \/ GenerateNext(1)
  \/ GenerateInsertFails(1)

FailureSpec == Init /\ [][FailureNext]_vars

\* one caller claims slots while the administration blocks and unblocks
\* them
BlockNext ==
  \/ CreateBookingNext(1, OwnStaff)
  \/ \E t \in PickIds, flag \in BOOLEAN : AdminSetBlocked(t, flag)

BlockSpec == Init /\ [][BlockNext]_vars

\* clients send requests of every kind to the create-booking function
HandlerNext ==
  \E method \in HttpMethods, body \in HttpBodies, mail \in MailOutcomes,
     id \in MockIds, tok \in MockTokens :
    HttpRequest(method, body, mail, id, tok)

HandlerSpec == Init /\ [][HandlerNext]_vars

\* arguments of getAvailableSlots: a service or none, a staff member or
\* none, a day or none; the clock at midnight and after the first slot
ServiceIdInputs == ServiceIds \cup {0}
StaffIdInputs == {NoStaff} \cup StaffIds
ClockInputs == {0, WindowStartMin + SlotMin}
\* <<date, clock>>: a day, or no date at one of the clock times
WindowInputs ==
  { <<d, 0>> : d \in FirstDay..(FirstDay + 1) } \cup { <<NoDate, c>> : c \in ClockInputs }

\* one caller lists and claims slots while the administration blocks
\* slots and changes the status of bookings
AvailabilityNext ==
  \/ CreateBookingNext(1, {BaseRequest(1, FirstPick)})
  \/ \E flag \in BOOLEAN : AdminSetBlocked(FirstPick, flag)
  \/ AdminNext
  \/ \E serviceId \in ServiceIdInputs, staffId \in StaffIdInputs, w \in WindowInputs,
        shape \in EmbedShapes :
       GetAvailableSlotsCall(serviceId, staffId, w[1], w[2], shape)

AvailabilitySpec == Init /\ [][AvailabilityNext]_vars

\* one caller claims and releases while round trips to storage may fail
OutageNext ==
  \/ CreateBookingNext(1, OwnStaff)
  \/ \E tok \in Uuids, applied \in BOOLEAN : DirectInsertUnreachable(1, tok, applied)
  \/ \E id \in BookingIdInputs, tok \in Tokens : CancelBookingCall(id, tok)
  \/ \E id \in BookingIdInputs, tok \in Tokens, applied \in BOOLEAN :
       CancelBookingUnreachable(id, tok, applied)
  \/ AdminNext

OutageSpec == Init /\ [][OutageNext]_vars

(***************************************************************************)
(* The pages: App, BookingPage with BookingForm, AdminPage                 *)
(***************************************************************************)
\* everything but the state of the pages
appVars == <<dbVars, pc, call, lastCall, server, gen, http>>

\* the key handleKeySubmit compares with
ValidAdminKey == "admin123"

\* texts of the key field and values of localStorage's 'adminKey'
AdminKeyInputs == {"", ValidAdminKey, "Admin123", "letmein"}

\* addresses the application is loaded at
Paths == {"/", "/admin"}

\* BookingPage renders BookingForm: the 'details' step with service, staff,
\* timeSlot and date set
FormRendered(u) ==
  /\ u.page = "booking"
  /\ u.currentStep = "details"
  /\ u.bookingState.service # Unset /\ u.bookingState.staff # Unset
  /\ u.bookingState.timeSlot # Unset /\ u.bookingState.date # Unset

\* BookingPage renders the success screen
SuccessRendered(u) ==
  /\ u.page = "booking"
  /\ u.currentStep = "success"
  /\ u.bookingState.service # Unset /\ u.bookingState.staff # Unset
  /\ u.bookingState.date # Unset /\ u.bookingState.timeSlot # Unset

\* a BookingForm that is not rendered is unmounted: its state is gone, a
\* form rendered later starts with useState(false) and useState(null)
Render(u) ==
  IF FormRendered(u) THEN u
  ELSE [u EXCEPT !.formCall = 0, !.isSubmitting = FALSE, !.submitError = FALSE]

\* App's handleBackToHome: BookingPage is unmounted
HandleBackToHome(u) ==
  Render([u EXCEPT !.page = "home", !.initialService = Unset,
                   !.currentStep = "none", !.bookingState = NoBookingState,
                   !.inFlight = {}])

\* App's handleBookService: BookingPage is mounted with initialService
HandleBookService(service) ==
  /\ ui.page = "home"
  /\ ui' = [ui EXCEPT !.page = "booking", !.initialService = Some(service),
                      !.currentStep = "time",
                      !.bookingState = [NoBookingState EXCEPT !.service = Some(service)]]
  /\ UNCHANGED appVars

HandleServiceSelect(service) ==
  /\ ui.page = "booking" /\ ui.currentStep = "service"
  /\ ui' = [ui EXCEPT !.bookingState.service = Some(service), !.currentStep = "time"]
  /\ UNCHANGED appVars

\* TimeSlotPicker hands over a timeslot, its staff member and its day
HandleTimeSlotSelect(timeSlot) ==
  /\ ui.page = "booking" /\ ui.currentStep = "time" /\ ui.bookingState.service # Unset
  /\ \E t \in timeslots :
       /\ t.id = timeSlot
       /\ ui' = Render([ui EXCEPT !.bookingState.timeSlot = Some(t.id),
                                  !.bookingState.staff = Some(t.staff_id),
                                  !.bookingState.date = Some(t.start_ts \div MinutesPerDay),
                                  !.currentStep = "details"])
  /\ UNCHANGED appVars

\* the Back button of the header, enabled in every step
HandleBackStep ==
  /\ ui.page = "booking"
  /\ ui' = (IF ui.currentStep = "time"
              THEN (IF ui.initialService # Unset THEN HandleBackToHome(ui)
                    ELSE [ui EXCEPT !.currentStep = "service"])
            ELSE IF ui.currentStep = "details"
              THEN Render([ui EXCEPT !.currentStep = "time"])
            ELSE HandleBackToHome(ui))
  /\ UNCHANGED appVars

\* 'Back to Time Selection' of the form, disabled while submitting
OnCancel ==
  /\ FormRendered(ui) /\ ~ ui.isSubmitting
  /\ ui' = Render([ui EXCEPT !.currentStep = "time"])
  /\ UNCHANGED appVars

\* the request of the form: defaultValues and fields that passed the
\* form's schema
FormData(bs) ==
  [BaseRequest(bs.staff[1], bs.timeSlot[1]) EXCEPT !.serviceId = bs.service[1]]

\* createBooking calls that have not reached storage yet
Underway == { c \in Callers : pc[c] \in {"fetch", "insert"} }

\* onSubmit up to the await: the submit button is disabled while submitting
OnSubmit(c) ==
  /\ FormRendered(ui) /\ ~ ui.isSubmitting
  /\ bookingSeq + Cardinality(Underway) <= MaxBookingSeq
  /\ CreateBookingBegin(c, FormData(ui.bookingState))
  /\ ui' = [ui EXCEPT !.isSubmitting = TRUE, !.submitError = FALSE,
                      !.formCall = c, !.inFlight = @ \cup {c}]

\* a continuation that calls onSuccess whatever createBooking did
OnSuccessCallsAlways(ok) == 1

\* how often the continuation of onSubmit calls onSuccess
OnSuccessCalls(ok) == IF ok THEN 1 ELSE 0

\* onSubmit after the await of caller c's createBooking, which resolved
\* (res.ok) or threw: onSuccess is BookingPage's handleBookingSuccess; a
\* state setter of an unmounted component changes nothing
Settle(u, c, res) ==
  LET mine == c \in u.inFlight
      own == u.formCall = c
      o == [caller |-> c, onSuccess |-> OnSuccessCalls(res.ok), setSubmitError |-> ~ res.ok]
      u1 == IF o.onSuccess > 0 /\ mine
              THEN [u EXCEPT !.bookingState.bookingId = Some(res.bookingId),
                             !.bookingState.cancelToken = Some(res.cancelToken),
                             !.currentStep = "success"]
            ELSE u
      u2 == IF o.setSubmitError /\ own THEN [u1 EXCEPT !.submitError = TRUE] ELSE u1
      u3 == IF own THEN [u2 EXCEPT !.isSubmitting = FALSE, !.formCall = 0] ELSE u2
  IN  Render([u3 EXCEPT !.inFlight = @ \ {c}, !.outcome = o])

OnSubmitSettled(c) ==
  /\ CreateBookingEnd(c)
  /\ ui' = Settle(ui, c, call[c])

\* 'Back to Home' of the success screen
BackToHome ==
  /\ SuccessRendered(ui)
  /\ ui' = HandleBackToHome(ui)
  /\ UNCHANGED appVars

\* 'Book Another Service' of the success screen
BookAnotherService ==
  /\ SuccessRendered(ui)
  /\ ui' = [ui EXCEPT !.bookingState = NoBookingState, !.currentStep = "service"]
  /\ UNCHANGED appVars

\* AdminPage is mounted: useState defaults, then the effect that reads
\* localStorage; the empty string is falsy
AdminMount(u) ==
  IF u.storedKey # Unset /\ u.storedKey # Some("")
    THEN [u EXCEPT !.page = "admin", !.adminKey = u.storedKey[1], !.isAuthenticated = TRUE]
  ELSE [u EXCEPT !.page = "admin"]

\* the browser loads the application: every state of the pages starts
\* anew, localStorage stays; App shows AdminPage on '/admin'
LoadApp(path) ==
  /\ ui' = (LET fresh == [HomeUi EXCEPT !.storedKey = ui.storedKey, !.checked = ui.checked]
            IN  IF path = "/admin" THEN AdminMount(fresh) ELSE fresh)
  /\ UNCHANGED appVars

\* onChange of the key field
SetAdminKey(k) ==
  /\ ui.page = "admin" /\ ~ ui.isAuthenticated
  /\ ui' = [ui EXCEPT !.adminKey = k]
  /\ UNCHANGED appVars

\* the key form is submitted; the field is required
HandleKeySubmit ==
  /\ ui.page = "admin" /\ ~ ui.isAuthenticated
  /\ ui.adminKey # ""
  /\ ui' = (IF ui.adminKey = ValidAdminKey
              THEN [ui EXCEPT !.keyError = FALSE, !.checked = @ \cup {ui.adminKey},
                              !.isAuthenticated = TRUE, !.storedKey = Some(ui.adminKey)]
            ELSE [ui EXCEPT !.keyError = TRUE, !.checked = @ \cup {ui.adminKey}])
  /\ UNCHANGED appVars

HandleLogout ==
  /\ ui.page = "admin" /\ ui.isAuthenticated
  /\ ui' = [ui EXCEPT !.isAuthenticated = FALSE, !.adminKey = "", !.storedKey = Unset]
  /\ UNCHANGED appVars

\* 'adminKey' of localStorage is written outside the application while
\* the admin page is not open
LocalStorageSetItem(k) ==
  /\ ui.page # "admin"
  /\ ui' = [ui EXCEPT !.storedKey = Some(k)]
  /\ UNCHANGED appVars

\* the steps of a createBooking call between the await and its outcome
CreateBookingSteps(c) ==
  \/ FunctionUnavailable(c)
  \/ \E id \in MockIds, tok \in MockTokens : Handler200(c, id, tok)
  \/ \E tok \in Uuids : DirectInsert(c, tok)

\* a visitor books through BookingPage
BookingPageNext ==
  \/ \E service \in ServiceIds : HandleBookService(service)
  \/ \E service \in ServiceIds : HandleServiceSelect(service)
  \/ \E timeSlot \in PickIds : HandleTimeSlotSelect(timeSlot)
  \/ HandleBackStep
  \/ OnCancel
  \/ \E c \in Callers : OnSubmit(c)
  \/ \E c \in Callers : CreateBookingSteps(c)
  \/ \E c \in Callers : OnSubmitSettled(c)
  \/ BackToHome
  \/ BookAnotherService

BookingPageSpec == Init /\ [][BookingPageNext]_vars

\* every createBooking call comes to its outcome (fetch and the insert
\* resolve or reject) and the continuation of onSubmit then runs
BookingPageFairness ==
  \A c \in Callers :
    /\ WF_vars(CreateBookingSteps(c))
    /\ WF_vars(OnSubmitSettled(c))

FairBookingPageSpec == Init /\ [][BookingPageNext]_vars /\ BookingPageFairness

\* a visitor opens and uses AdminPage
AdminPageNext ==
  \/ \E path \in Paths : LoadApp(path)
  \/ \E k \in AdminKeyInputs : SetAdminKey(k)
  \/ HandleKeySubmit
  \/ HandleLogout
  \/ \E k \in AdminKeyInputs : LocalStorageSetItem(k)

AdminPageSpec == Init /\ [][AdminPageNext]_vars

(***************************************************************************)
(* Properties                                                              *)
(***************************************************************************)
\* caller c's createBooking returns or throws in this step
Finishes(c) == pc[c] # "done" /\ pc'[c] = "done"

\* a getBooking or cancelBooking call is made in this step
Calls(op) == lastCall' # lastCall /\ lastCall'.op = op

\* C1: in every reachable state each timeslot is referenced by at most one
\* booking whose status is not 'cancelled'
C1_AtMostOneActiveBooking ==
  \A b1 \in bookings : \A b2 \in bookings :
    (b1.timeslot_id = b2.timeslot_id /\ b1.status # "cancelled" /\ b2.status # "cancelled")
      => b1 = b2

\* a direct insert lost against the booking of a slot, after the generator
\* ran again and a cancelBooking call was made
C1_Witness ==
  /\ genRuns > 0
  /\ lastCall # NoCall /\ lastCall.op = "cancelBooking"
  /\ \E c \in Callers :
       /\ pc[c] = "done" /\ call[c].error = "slotTaken"
       /\ \E b \in bookings :
            b.timeslot_id = call[c].req.timeslotId /\ b.status # "cancelled"

\* C2: when all callers have called createBooking for the same timeslot
\* while it was free, exactly one call returns an id and token and every
\* other call fails with the slot-already-taken error
C2_ExactlyOneWinner ==
  ( /\ \A c \in Callers : pc[c] = "done" /\ call[c].slotFree
    /\ \A c1 \in Callers : \A c2 \in Callers :
         call[c1].req.timeslotId = call[c2].req.timeslotId )
    => /\ Cardinality({ c \in Callers : call[c].ok }) = 1
       /\ \A c \in Callers : ~ call[c].ok => call[c].error = "slotTaken"

\* the last API call was a cancelBooking that returned true for a booking
\* on timeslot t, and t is not blocked and carries no other booking that
\* is not cancelled
Released(rows, slots, lc, t) ==
  /\ lc # NoCall
  /\ lc.op = "cancelBooking" /\ lc.result /\ lc.before # "none"
  /\ \E b \in rows :
       /\ b.id = lc.id /\ b.cancel_token = lc.tok /\ b.timeslot_id = t
       /\ ~ \E o \in rows : o # b /\ o.timeslot_id = t /\ o.status # "cancelled"
  /\ \E ts \in slots : ts.id = t /\ ~ ts.is_blocked


\* C3: a createBooking for timeslot T that completes after cancelBooking
\* returned true for the booking on T (T not blocked, no other booking on T
\* that is not cancelled) succeeds and creates a new booking on T
C3_ReclaimAfterCancel ==
  [][\A c \in Callers :
       (Finishes(c) /\ Released(bookings, timeslots, lastCall, call[c].req.timeslotId))
         => /\ call'[c].ok
            /\ \E b \in bookings' \ bookings :
                 b.timeslot_id = call[c].req.timeslotId /\ b.id = call'[c].bookingId]_vars

\* C4: when createBooking returns {bookingId, cancelToken}, the table holds
\* a booking that is not cancelled with that id and token on the requested
\* timeslot, and getBooking(bookingId, cancelToken) returns it
C4_SuccessIsDurable ==
  [][\A c \in Callers :
       (Finishes(c) /\ call'[c].ok)
         => /\ \E b \in bookings' :
                 /\ b.id = call'[c].bookingId
                 /\ b.cancel_token = call'[c].cancelToken
                 /\ b.timeslot_id = call'[c].req.timeslotId
                 /\ b.status # "cancelled"
            /\ GetBooking(bookings', call'[c].bookingId, call'[c].cancelToken, "anon")
                 \in bookings']_vars

\* C5: a createBooking whose request fails validation ends in failure and
\* leaves the bookings table unchanged, and after a 400 answer of the
\* function no step of the call changes the table
C5_InvalidRequestStoresNothing ==
  [][\A c \in Callers :
       /\ (Finishes(c) /\ ~ BookingSchemaOk(call[c].req))
            => (~ call'[c].ok /\ bookings' = bookings)
       /\ (call[c].fn = "400" /\ pc[c] = "insert") => bookings' = bookings]_vars

\* C6: getBooking returns a booking only if a booking with that id and
\* that cancel_token exists, and returns null both for an existing id with
\* another token and for an id that does not exist
C6_LookupNeedsIdAndToken ==
  [][Calls("getBooking") =>
       LET r == lastCall'.result
       IN  /\ r # Null =>
                (r \in bookings /\ r.id = lastCall'.id /\ r.cancel_token = lastCall'.tok)
           /\ (\E b \in bookings : b.id = lastCall'.id /\ b.cancel_token # lastCall'.tok)
                => r = Null
           /\ (~ \E b \in bookings : b.id = lastCall'.id) => r = Null]_vars

\* getBooking answered null for the id of a stored booking and a well-formed
\* token that is not the booking's
C6_Witness ==
  /\ lastCall # NoCall /\ lastCall.op = "getBooking"
  /\ lastCall.result = Null
  /\ IsUuidSyntax(lastCall.tok)
  /\ lastCall.before = "none"
  /\ \E b \in bookings : b.id = lastCall.id /\ b.cancel_token # lastCall.tok

\* C7: cancelBooking with the id and token of a booking that is pending or
\* confirmed returns true and leaves the booking cancelled
C7_CancelCancels ==
  [][(Calls("cancelBooking") /\ lastCall'.before \in {"pending", "confirmed"})
       => /\ lastCall'.result = TRUE
          /\ StatusOf(bookings', lastCall'.id, lastCall'.tok) = "cancelled"]_vars

\* C8: a cancelBooking call that repeats, with the id and token of a
\* booking, a call that returned true returns true again and leaves the
\* bookings table as it was
C8_RepeatCancelIsNoOp ==
  [][(Calls("cancelBooking") /\ lastCall'.n >= 2 /\ lastCall'.before # "none")
       => (lastCall'.result = TRUE /\ bookings' = bookings)]_vars

\* cancelBooking was called twice in a row with the credentials of a booking
C8_Witness ==
  /\ lastCall # NoCall /\ lastCall.op = "cancelBooking"
  /\ lastCall.n >= 2 /\ lastCall.before # "none" /\ lastCall.result = TRUE

\* C9: cancelBooking with a pair that matches no booking does not return
\* true and changes no booking
C9_UnknownPairNotCancelled ==
  [][(Calls("cancelBooking") /\ lastCall'.before = "none")
       => (lastCall'.result # TRUE /\ bookings' = bookings)]_vars

\* the edges of the status machine
StatusEdges == { <<"pending", "confirmed">>, <<"pending", "cancelled">>,
                 <<"confirmed", "cancelled">>, <<"confirmed", "completed">> }

\* C10: the status of a booking changes only along an edge of the status
\* machine; a cancelled or completed booking keeps its status
C10_StatusMachine ==
  [][\A b \in bookings : \A a \in bookings' :
       (a.id = b.id /\ a.status # b.status) => <<b.status, a.status>> \in StatusEdges]_vars

\* cancelBooking was called with the id and token of a cancelled or
\* completed booking and returned true
C10_Witness ==
  /\ lastCall # NoCall /\ lastCall.op = "cancelBooking"
  /\ lastCall.before \in {"cancelled", "completed"}
  /\ lastCall.result = TRUE
  /\ StatusOf(bookings, lastCall.id, lastCall.tok) = lastCall.before

\* C11: createBooking stores no booking on a timeslot that is blocked at
\* the moment of the insert, also when the slot was free when the caller
\* loaded it
C11_NoBookingOnBlockedSlot ==
  [][\A b \in bookings' \ bookings :
       ~ \E ts \in timeslots : ts.id = b.timeslot_id /\ ts.is_blocked]_vars

\* SQLSTATEs of the insert of createBooking other than the unique violation
OtherSqlStates == {"23503", "42501"}

\* C12: when createBooking finishes for a timeslot that holds a booking,
\* the function has answered 409 or the error thrown after the unique
\* violation has a status that no other storage error gets
C12_ConflictIsDistinguishable ==
  [][\A c \in Callers :
       /\ (Finishes(c) /\ call'[c].fn \notin {"pending", "unavailable", "400"}
             /\ \E b \in bookings : b.timeslot_id = call[c].req.timeslotId)
            => call'[c].fn = "409"
       /\ (Finishes(c) /\ call'[c].sqlstate = "23505")
            => call'[c].errorStatus \notin { ApiErrorStatus(e) : e \in OtherSqlStates }]_vars

\* C13: the handler answers 200 to OPTIONS and 405 to every method other
\* than POST; to a POST whose body is not JSON or does not satisfy
\* BookingSchema it answers 400 with the issues of the fields, and it
\* answers 500 only to a POST whose body satisfies BookingSchema
C13_HandlerStatuses ==
  http # NoRequest =>
    LET bad == ParseThrows(http.body) \/ ~ SchemaAccepts(JsonParse(http.body))
    IN  /\ http.method = "OPTIONS" => http.status = 200
        /\ http.method \notin {"OPTIONS", "POST"} => http.status = 405
        /\ (http.method = "POST" /\ bad)
             => (http.status = 400 /\ http.answer.details # {})
        /\ http.status = 500 => ~ bad

\* C14: a POST that passes validation is answered 200 with the booking id
\* and token the handler drew, whatever happens to the two e-mails, and
\* the step changes no table
C14_EmailFailureIsSwallowed ==
  [][(http' # http /\ http'.method = "POST"
        /\ ~ ParseThrows(http'.body) /\ SchemaAccepts(JsonParse(http'.body)))
       => /\ http'.status = 200
          /\ http'.answer.bookingId = http'.mockBookingId
          /\ http'.answer.cancelToken = http'.mockCancelToken
          /\ bookings' = bookings /\ timeslots' = timeslots]_vars

\* the function answered 200 although the customer's e-mail failed
C14_Witness ==
  /\ http # NoRequest
  /\ http.status = 200 /\ http.method = "POST"
  /\ http.mail.customer = "fails" /\ http.mail.admin = "sent"
  /\ http.answer.cancelToken = http.mockCancelToken

\* session r executes a statement of the block or its END in this step
\* (and does not fail)
RunProceeds(r) ==
  /\ gen.run[r].st = "running"
  /\ gen'.run[r] # gen.run[r]
  /\ gen'.run[r].st \in {"running", "committed"}

\* C15: the timeslots table never holds two rows with the same
\* (staff_id, start_ts), and a run of the generation block that starts
\* when every slot it offers is stored changes nothing and does not fail
C15_GeneratorIsIdempotent ==
  /\ [](\A t1 \in timeslots : \A t2 \in timeslots :
         (t1.staff_id = t2.staff_id /\ t1.start_ts = t2.start_ts) => t1 = t2)
  /\ [][\A r \in Runners :
          (RunProceeds(r) /\ gen.run[r].found) => timeslots' = timeslots]_vars

\* two sessions ran the block at the same time over a date whose slots
\* were stored, and both committed without storing a row
C15_Witness ==
  /\ gen.switches > 0
  /\ \A r \in Runners :
       /\ gen.run[r].st = "committed" /\ gen.run[r].found
       /\ gen.run[r].k = InsertsPerRun(gen.run[r].cur) /\ gen.run[r].k > 0
       /\ gen.run[r].ins = {}

\* the days a run on date cur is to cover: cur .. cur + HorizonDays - 1
\* without Saturdays and Sundays
HorizonWorkdays(cur) == { d \in cur..(cur + HorizonDays - 1) : Dow(d) \notin {0, 6} }

\* C16: when a run of the generator ends, every active staff member has
\* exactly one timeslot for each 30-minute interval of the window on every
\* working day of the horizon (16 per day), and no timeslot on a weekend
\* day, outside the window or for inactive staff
C16_HorizonIsCovered ==
  [][\A r \in Runners :
       (RunProceeds(r) /\ gen'.run[r].st = "committed") =>
         /\ \A s \in ActiveStaff : \A d \in HorizonWorkdays(gen.run[r].cur) :
              /\ \A n \in 0..(SlotsPerDay - 1) :
                   Cardinality({ t \in timeslots' :
                                   t.staff_id = s /\ t.start_ts = SlotStart(d, n) }) = 1
              /\ Cardinality({ t \in timeslots' :
                                 t.staff_id = s /\ t.start_ts \div MinutesPerDay = d }) = SlotsPerDay
         /\ \A t \in timeslots' :
              /\ t.staff_id \in ActiveStaff
              /\ Dow(t.start_ts \div MinutesPerDay) \notin {0, 6}
              /\ t.start_ts % MinutesPerDay >= WindowStartMin
              /\ t.end_ts % MinutesPerDay <= WindowEndMin
              /\ t.end_ts \div MinutesPerDay = t.start_ts \div MinutesPerDay]_vars

\* C17: every timeslot ends 30 minutes after its start on the day of its
\* start, and two timeslots of one staff member do not overlap
C17_SlotsAreDisjointIntervals ==
  /\ \A t \in timeslots :
       /\ t.end_ts = t.start_ts + SlotMin
       /\ t.end_ts \div MinutesPerDay = t.start_ts \div MinutesPerDay
  /\ \A t1 \in timeslots : \A t2 \in timeslots :
       (t1 # t2 /\ t1.staff_id = t2.staff_id)
         => (t1.end_ts <= t2.start_ts \/ t2.end_ts <= t1.start_ts)

\* a run of the block after the migration stored the slots of another day
C17_Witness ==
  /\ \E r \in Runners :
       /\ gen.run[r].st = "committed"
       /\ Cardinality(gen.run[r].ins) = Cardinality(ActiveStaff) * SlotsPerDay
  /\ \E t1 \in timeslots : \E t2 \in timeslots :
       /\ t1.staff_id = t2.staff_id
       /\ t1.start_ts \div MinutesPerDay # t2.start_ts \div MinutesPerDay
       /\ t2.start_ts = t1.end_ts + MinutesPerDay

\* C18: when an INSERT of a run fails, the run goes on with its next
\* statement and the rows it stored before the failure stay in the table
C18_GeneratorSurvivesFailure ==
  [][\A r \in Runners :
       (gen.run[r].st = "running" /\ gen'.faults > gen.faults /\ gen'.last = r)
         => /\ gen'.run[r].st = "running"
            /\ gen'.run[r].k = gen.run[r].k + 1
            /\ \A t \in timeslots : t.id \in gen.run[r].ins => t \in timeslots']_vars

\* C19: every step leaves every booking in the table with all its columns
\* except status as they were, cancel_token included, and a new booking
\* gets its token with the insert
C19_CancelTokenIsImmutable ==
  [][/\ \A b \in bookings :
          \E a \in bookings' : a.id = b.id /\ [a EXCEPT !.status = b.status] = b
     /\ \A a \in bookings' \ bookings :
          (~ \E b \in bookings : b.id = a.id) => a.cancel_token \in Uuids]_vars

\* cancelBooking returned true for the pair of a booking whose status the
\* administration had changed, and the pair still names the booking
C19_Witness ==
  /\ lastCall # NoCall /\ lastCall.op = "cancelBooking"
  /\ lastCall.result = TRUE
  /\ lastCall.before \in {"cancelled", "completed"}
  /\ \E b \in bookings :
       b.id = lastCall.id /\ b.cancel_token = lastCall.tok /\ b.cancel_token \in Uuids

\* C20: a read made without a booking's cancel token (the admin page's
\* loadBookings, any select through the public client) returns no
\* cancel_token of a stored booking
C20_TokenIsSecret ==
  [][Calls("loadBookings") =>
       { b.cancel_token : b \in lastCall'.result }
         \cap { b.cancel_token : b \in bookings } = {}]_vars

\* the timeslots of the window that are not blocked and carry no booking
\* other than cancelled ones
ExpectedSlots(rows, slots, staffId, date, now) ==
  LET taken == { b.timeslot_id : b \in { x \in rows : x.status # "cancelled" } }
  IN  { t \in slots :
          /\ ~ t.is_blocked
          /\ t.id \notin taken
          /\ (staffId = NoStaff \/ t.staff_id = staffId)
          /\ InWindow(t.start_ts, date, now) }

\* C21: getAvailableSlots returns, in the order of their start, exactly
\* the timeslots of the requested window that are not blocked and have no
\* booking with a status other than 'cancelled', whatever serviceId is
C21_AvailableSlotsAreTheFreeSlots ==
  [][Calls("getAvailableSlots") =>
       LET r == lastCall'.result
           a == lastCall'.args
           expected == { <<t.start_ts, t.id>> :
                           t \in ExpectedSlots(bookings, timeslots, a.staffId, a.date, a.now) }
           starts == [id \in { p[2] : p \in expected } |->
                        (CHOOSE p \in expected : p[2] = id)[1]]
       IN  /\ ~ r.threw
           /\ { r.rows[i] : i \in 1..Len(r.rows) } = DOMAIN starts
           /\ Len(r.rows) = Cardinality(expected)
           /\ \A i \in 1..(Len(r.rows) - 1) : starts[r.rows[i]] <= starts[r.rows[i + 1]]]_vars

\* C22: every booking row a claim creates starts with status 'confirmed':
\* each row that a step adds to the table is 'confirmed', never 'pending',
\* 'cancelled' or 'completed'
C22_NewBookingIsConfirmed ==
  [][\A b \in bookings' :
       b.id \notin { x.id : x \in bookings } => b.status = "confirmed"]_vars

\* a claim has just stored its row and holds the row's id
C22_Witness ==
  \E c \in Callers : \E b \in bookings :
    /\ pc[c] = "done" /\ call[c].ok
    /\ call[c].bookingId = b.id
    /\ b.status = "confirmed"

\* C23: a claim or release whose storage round trip fails reports failure,
\* and neither reports success without storage having acknowledged the
\* insert or update: a createBooking that returns an id and token has its
\* row in the table, a cancelBooking that returns true had its UPDATE
\* answered
C23_FailsClosed ==
  [][/\ \A c \in Callers :
          Finishes(c) /\ call'[c].ok =>
            \E b \in bookings' : /\ b.id = call'[c].bookingId
                                 /\ b.cancel_token = call'[c].cancelToken
     /\ Calls("cancelBooking") /\ lastCall'.result => lastCall'.acked]_vars

\* C24: the admin panel is shown only after the key the user holds has
\* been validated: isAuthenticated implies that a key equal to the valid
\* admin key was checked, also when the page is opened with a value already
\* under 'adminKey' in localStorage
C24_AuthenticatedOnlyAfterValidKey ==
  ui.isAuthenticated => ValidAdminKey \in ui.checked

\* what each step of the wizard has of bookingState
StepHasItsData(u) ==
  /\ u.currentStep = "time" => u.bookingState.service # Unset
  /\ u.currentStep = "details" =>
       /\ u.bookingState.service # Unset /\ u.bookingState.staff # Unset
       /\ u.bookingState.timeSlot # Unset /\ u.bookingState.date # Unset
  /\ u.currentStep = "success" =>
       u.bookingState.bookingId # Unset /\ u.bookingState.cancelToken # Unset

\* C25: over any sequence of select, back, cancel and 'Book Another
\* Service' events, step 'time' has a service, step 'details' has service,
\* staff, timeSlot and date, step 'success' has bookingId and cancelToken,
\* and 'success' is entered only from 'details', never from 'service' or
\* 'time'
C25_WizardInvariants ==
  /\ [] StepHasItsData(ui)
  /\ [][ui'.currentStep = "success" /\ ui.currentStep # "success"
          => ui.currentStep = "details"]_vars

\* caller c's createBooking is consumed by the continuation of onSubmit
Settles(c) == pc[c] = "done" /\ pc'[c] = "idle"

\* C26: each submit of BookingForm ends in exactly one of two outcomes,
\* onSuccess called once and no error shown, or submitError set and
\* onSuccess not called; isSubmitting eventually returns to false; and
\* while isSubmitting is true the form starts no second createBooking
C26_SubmitSettlesOnce ==
  /\ [][\A c \in Callers :
          Settles(c) =>
            LET o == ui'.outcome
            IN  \/ /\ o.onSuccess = 1 /\ ~ o.setSubmitError
                   /\ (ui.formCall = c => ~ ui'.submitError)
                \/ /\ o.onSuccess = 0 /\ o.setSubmitError
                   /\ (ui.formCall = c => ui'.submitError)]_vars
  /\ [][(\E c \in Callers : pc[c] = "idle" /\ pc'[c] = "fetch") => ~ ui.isSubmitting]_vars
  /\ (ui.isSubmitting ~> ~ ui.isSubmitting)

\* a submit has failed: the form shows the error, is no longer submitting,
\* and onSuccess was not called
C26_Witness ==
  /\ FormRendered(ui) /\ ui.submitError /\ ~ ui.isSubmitting
  /\ ui.outcome.caller # 0 /\ ui.outcome.onSuccess = 0

\* C27: availability and claim agree: a createBooking for a timeslot that
\* getAvailableSlots has returned, with nothing changed in between,
\* succeeds, also when the timeslot's only bookings are cancelled
C27_ListedSlotCanBeClaimed ==
  [][\A c \in Callers :
       /\ Finishes(c)
       /\ lastCall.op = "getAvailableSlots"
       /\ ~ lastCall.result.threw
       /\ \E i \in 1..Len(lastCall.result.rows) :
            lastCall.result.rows[i] = call[c].req.timeslotId
       /\ lastCall.result =
            GetAvailableSlots(bookings, timeslots, lastCall.args.serviceId,
                              lastCall.args.staffId, lastCall.args.date, lastCall.args.now,
                              lastCall.args.shape, "anon")
       => call'[c].ok]_vars

\* C28: every stored booking references a timeslot of the booking's own
\* staff member (booking.staff_id = timeslot.staff_id) and an existing
\* service, for every input createBooking accepts
C28_BookingMatchesItsTimeslot ==
  \A b \in bookings :
    /\ \E t \in timeslots : t.id = b.timeslot_id /\ t.staff_id = b.staff_id
    /\ b.service_id \in ServiceIds
====
